---- MODULE Spec2Model ----
(***************************************************************************)
(* Model of template/runner/base/base_inference.py: the BaseInference      *)
(* runner.  One instance, a sequence of single_run calls; every call walks *)
(* the statements of single_run in program order.  External code           *)
(* (BaseSetup.setup_model, torch.load, the checkpoint's transform, the     *)
(* network's forward pass) is modelled by its possible outcomes.           *)
(***************************************************************************)
EXTENDS Integers, Sequences, FiniteSets

\* ---------------------------------------------------------------- bounds
MaxCalls == 3      \* number of single_run calls explored on the instance
MaxLogit == 1      \* logits of the network output range over -MaxLogit..MaxLogit
NumOut == 3        \* width of the network's output row

\* ---------------------------------------------------------------- values
None == "None"

AllAttrs == {"model", "transform", "classes"}

ClassNames == <<"cat", "dog", "bird", "fish", "frog">>

NoCheckpoint == [found |-> FALSE, hasT |-> FALSE, T |-> "", hasC |-> FALSE, C |-> <<>>]

\* The checkpoint files that load_model can name (torch.load's view of the
\* file system): a complete one, one without 'test_transform' and with a
\* class list shorter than the output row, one without 'classes', and a path
\* with no file.
CheckpointPaths == {"ckA", "ckB", "ckC", "ckMissing"}

TorchLoad(load_model) ==
    CASE load_model = "ckA" ->
           [found |-> TRUE, hasT |-> TRUE, T |-> "tA", hasC |-> TRUE,
            C |-> SubSeq(ClassNames, 1, NumOut)]
      [] load_model = "ckB" ->
           [found |-> TRUE, hasT |-> FALSE, T |-> "", hasC |-> TRUE,
            C |-> SubSeq(ClassNames, 1, NumOut - 1)]
      [] load_model = "ckC" ->
           [found |-> TRUE, hasT |-> TRUE, T |-> "tC", hasC |-> FALSE, C |-> <<>>]
      [] OTHER -> NoCheckpoint

\* input_folder values: None, a path with an image, a path with no file
FolderArgs == {None, "img_ok", "img_missing"}
\* input_image values: None or a base64 string supplied by the caller
ImageArgs == {None, "b64_user"}

PathExists(input_folder) == input_folder = "img_ok"

\* The base64 PNG of Image.new('RGB', (128, 128)) built by the warm-up path
SyntheticImage == "b64_synth_128x128_RGB"

DefaultTransform == "Compose([ToTensor()])"

Logits == (0 - MaxLogit)..MaxLogit
Outputs == [1..NumOut -> Logits]
NoOutput == [i \in 1..NumOut |-> 0]

NoPayload == [kind |-> "none", label |-> "", score |-> 0]
PreloadPayload == [kind |-> "text", label |-> "successfully loaded the model", score |-> 0]

NoArgs == [pre_load |-> FALSE, load_model |-> "ckA", input_folder |-> None, input_image |-> None]

\* ---------------------------------------------------------------- state
VARIABLES
    attrs,        \* names of the instance attributes that exist (hasattr)
    model,        \* self.model: identity of the model object (0 = none)
    transform,    \* self.transform
    classes,      \* self.classes
    nCalls,       \* single_run calls started so far
    setupCalls,   \* invocations of setup.setup_model so far
    ckptCalls,    \* invocations of _load_checkpoint so far
    pc,           \* position of the running call in single_run
    args,         \* arguments of the running call as passed by the caller
    kwargs,       \* the call's kwargs dict (line 67 overwrites input_image)
    checkpoint,   \* local variable checkpoint
    img,          \* local variable img: where the image came from
    applied,      \* the transform applied to img in this call ("" = none)
    output,       \* local variable output
    trace,        \* steps this call has executed, in order
    outcome,      \* "running", "returned" or the exception type that ended the call
    raisedAt,     \* function in which that exception was raised
    payload,      \* value returned by the call
    loadedAtEntry,\* the call found the load guard false (load skipped)
    loadDone,     \* the call executed its load block to the end (line 58)
    everLoaded    \* some call has executed the load block to the end

vars == <<attrs, model, transform, classes, nCalls, setupCalls, ckptCalls, pc,
          args, kwargs, checkpoint, img, applied, output, trace, outcome,
          raisedAt, payload, loadedAtEntry, loadDone, everLoaded>>

self == <<attrs, model, transform, classes>>
counters == <<nCalls, setupCalls, ckptCalls>>
locals == <<checkpoint, img, applied, output>>

Init ==
    /\ attrs = {}
    /\ model = 0
    /\ transform = ""
    /\ classes = <<>>
    /\ nCalls = 0
    /\ setupCalls = 0
    /\ ckptCalls = 0
    /\ pc = "idle"
    /\ args = NoArgs
    /\ kwargs = NoArgs
    /\ checkpoint = NoCheckpoint
    /\ img = ""
    /\ applied = ""
    /\ output = NoOutput
    /\ trace = <<>>
    /\ outcome = "returned"
    /\ raisedAt = ""
    /\ payload = NoPayload
    /\ loadedAtEntry = FALSE
    /\ loadDone = FALSE
    /\ everLoaded = FALSE

\* ---------------------------------------------------------------- helpers
\* raise: the call ends with exception type e raised in function f
Raise(e, f) ==
    /\ outcome' = e
    /\ raisedAt' = f
    /\ pc' = "done"

Running ==
    /\ outcome' = outcome
    /\ raisedAt' = raisedAt

Did(step) == trace' = Append(trace, step)

\* line 48: not hasattr(self, 'model') or not hasattr(self, 'transform')
NeedsLoadInverted(a) == "model" \notin a \/ "transform" \in a
NeedsLoad(a) == "model" \notin a \/ "transform" \notin a

\* line 60: where the call continues once the load block is behind it
AfterLoad(pre_load) == IF pre_load THEN "preload_check" ELSE "preprocess"

\* lines 72-74: a returned preprocess is followed by the forward pass
AfterPreprocessSkip == "postprocess"
AfterPreprocess == "forward"

\* lines 52-56: the transform stored by the load block
ChooseTransformDefault(ck) == DefaultTransform
ChooseTransform(ck) == IF ck.hasT THEN ck.T ELSE DefaultTransform

\* lines 62-63: the two assertions of the warm-up path
PreloadAssertsImageOnly(kw) == kw.input_image = None
PreloadAsserts(kw) == kw.input_image = None /\ kw.input_folder = None

\* lines 136-141: _load_image
LoadImageNoCheck(input_folder) == [err |-> "", at |-> "", src |-> "file:" \o input_folder]
LoadImage(input_folder) ==
    IF ~PathExists(input_folder)
    THEN [err |-> "FileNotFoundError", at |-> "_load_image", src |-> ""]
    ELSE [err |-> "", at |-> "", src |-> "file:" \o input_folder]

\* lines 117-129: image acquisition of preprocess, up to the evaluation of
\* the argument of self.transform(img)
AcquireImageNoAssert(input_folder, input_image) ==
    IF input_image # None
    THEN [err |-> "", at |-> "", src |-> "b64:" \o input_image]
    ELSE IF input_folder # None THEN LoadImage(input_folder)
    ELSE [err |-> "", at |-> "", src |-> "blank"]
AcquireImage(input_folder, input_image) ==
    IF input_folder # None
    THEN IF input_image # None
         THEN [err |-> "AssertionError", at |-> "preprocess", src |-> ""]
         ELSE LoadImage(input_folder)
    ELSE IF input_image # None
         THEN [err |-> "", at |-> "", src |-> "b64:" \o input_image]
         ELSE [err |-> "UnboundLocalError", at |-> "preprocess", src |-> ""]

\* ---------------------------------------------------------------- postprocess
RECURSIVE SeqSum(_)
SeqSum(s) == IF s = <<>> THEN 0 ELSE Head(s) + SeqSum(Tail(s))

RowMax(row) == CHOOSE m \in {row[i] : i \in 1..Len(row)} :
                  \A i \in 1..Len(row) : row[i] <= m

\* exp(-d) in millionths, d = 0, 1, 2, ...
ExpTable == <<1000000, 367879, 135335, 49787, 18316, 6738, 2479, 912, 335, 123, 45>>
ExpNeg(d) == IF d + 1 <= Len(ExpTable) THEN ExpTable[d + 1] ELSE 0

\* line 146: torch.nn.Softmax(dim=1) on the single row of the batch.  The
\* row is shifted by its maximum before exponentiation; entry i of the
\* result is num[i] / den.
Softmax(row) ==
    LET e == [i \in 1..Len(row) |-> ExpNeg(RowMax(row) - row[i])]
    IN  [num |-> e, den |-> SeqSum(e)]

\* line 147: torch.max(output, 1): the largest entry and an index holding it
\* (which one among equal entries is not specified)
MaxIndicesSmallest(sm) == {i \in 1..Len(sm.num) : sm.num[i] = 0 - RowMax([j \in 1..Len(sm.num) |-> 0 - sm.num[j]])}
MaxIndices(sm) == {i \in 1..Len(sm.num) : sm.num[i] = RowMax(sm.num)}

\* line 148: f"{value.item():.2f}": num/den rounded to hundredths, ties to
\* even; the result is the number of hundredths printed
Format2f(num, den) ==
    LET q == (100 * num) \div den
        r == (100 * num) % den
    IN  IF 2 * r > den THEN q + 1
        ELSE IF 2 * r = den THEN q + (q % 2)
        ELSE q

\* line 76: what follows the forward pass
AfterForwardAlwaysPost(pre_load) == "postprocess"
AfterForward(pre_load) == IF pre_load THEN "return_preload" ELSE "postprocess"

\* ---------------------------------------------------------------- single_run
\* Entry of single_run(pre_load, load_model, input_folder, input_image) and
\* the guard of line 48.
Call(pl, lm, f, i) ==
    /\ pc \in {"idle", "done"}
    /\ nCalls < MaxCalls
    /\ nCalls' = nCalls + 1
    /\ args' = [pre_load |-> pl, load_model |-> lm, input_folder |-> f, input_image |-> i]
    /\ kwargs' = args'
    /\ checkpoint' = NoCheckpoint
    /\ img' = ""
    /\ applied' = ""
    /\ output' = NoOutput
    /\ trace' = <<>>
    /\ outcome' = "running"
    /\ raisedAt' = ""
    /\ payload' = NoPayload
    /\ loadDone' = FALSE
    /\ loadedAtEntry' = ~NeedsLoad(attrs)
    /\ pc' = IF NeedsLoad(attrs) THEN "setup_model" ELSE AfterLoad(pl)
    /\ UNCHANGED <<self, setupCalls, ckptCalls, everLoaded>>

\* lines 49-50: self.model = self.setup.setup_model(**kwargs); self.model.eval()
\* setup_model either raises or returns a new model object.
SetupModel ==
    /\ pc = "setup_model"
    /\ setupCalls' = setupCalls + 1
    /\ Did("setup_model")
    /\ \/ /\ Raise("Exception", "setup_model")
          /\ UNCHANGED <<attrs, model>>
       \/ /\ model' = setupCalls'
          /\ attrs' = attrs \cup {"model"}
          /\ pc' = "load_checkpoint"
          /\ Running
    /\ UNCHANGED <<transform, classes, nCalls, ckptCalls, args, kwargs, locals,
                   payload, loadedAtEntry, loadDone, everLoaded>>

\* lines 51, 90-102: checkpoint = self._load_checkpoint(**kwargs)
LoadCheckpoint ==
    /\ pc = "load_checkpoint"
    /\ ckptCalls' = ckptCalls + 1
    /\ Did("load_checkpoint")
    /\ IF TorchLoad(kwargs.load_model).found
       THEN /\ checkpoint' = TorchLoad(kwargs.load_model)
            /\ pc' = "store_transform"
            /\ Running
       ELSE /\ Raise("FileNotFoundError", "_load_checkpoint")
            /\ UNCHANGED checkpoint
    /\ UNCHANGED <<self, nCalls, setupCalls, args, kwargs, img, applied, output,
                   payload, loadedAtEntry, loadDone, everLoaded>>

\* lines 52-56: self.transform from the checkpoint or the default
StoreTransform ==
    /\ pc = "store_transform"
    /\ Did("store_transform")
    /\ transform' = ChooseTransform(checkpoint)
    /\ attrs' = attrs \cup {"transform"}
    /\ pc' = "store_classes"
    /\ Running
    /\ UNCHANGED <<model, classes, counters, args, kwargs, locals, payload,
                   loadedAtEntry, loadDone, everLoaded>>

\* line 58: self.classes = checkpoint['classes']
StoreClasses ==
    /\ pc = "store_classes"
    /\ Did("store_classes")
    /\ IF checkpoint.hasC
       THEN /\ classes' = checkpoint.C
            /\ attrs' = attrs \cup {"classes"}
            /\ loadDone' = TRUE
            /\ everLoaded' = TRUE
            /\ pc' = AfterLoad(kwargs.pre_load)
            /\ Running
       ELSE /\ Raise("KeyError", "single_run")
            /\ UNCHANGED <<classes, attrs, loadDone, everLoaded>>
    /\ UNCHANGED <<model, transform, counters, args, kwargs, locals, payload,
                   loadedAtEntry>>

\* lines 60-67: the warm-up path checks that no image was given and puts
\* the synthetic image into kwargs['input_image']
PreloadCheck ==
    /\ pc = "preload_check"
    /\ Did("preload_check")
    /\ IF PreloadAsserts(kwargs)
       THEN /\ kwargs' = [kwargs EXCEPT !.input_image = SyntheticImage]
            /\ pc' = "preprocess"
            /\ Running
       ELSE /\ Raise("AssertionError", "single_run")
            /\ UNCHANGED kwargs
    /\ UNCHANGED <<self, counters, args, locals, payload, loadedAtEntry,
                   loadDone, everLoaded>>

\* lines 70, 104-134: img = self.preprocess(**kwargs).  The transform and
\* move_to_device are external calls and may raise.
Preprocess ==
    /\ pc = "preprocess"
    /\ Did("preprocess")
    /\ LET got == AcquireImage(kwargs.input_folder, kwargs.input_image)
       IN  IF got.err # ""
           THEN /\ Raise(got.err, got.at)
                /\ UNCHANGED <<img, applied>>
           ELSE /\ img' = got.src
                /\ applied' = transform
                /\ \/ /\ pc' = AfterPreprocess
                      /\ Running
                   \/ Raise("Exception", "transform")
    /\ UNCHANGED <<self, counters, args, kwargs, checkpoint, output, payload,
                   loadedAtEntry, loadDone, everLoaded>>

\* lines 72-74: output = self.model(img); the network returns one row of
\* logits or raises
Forward ==
    /\ pc = "forward"
    /\ Did("forward")
    /\ \/ /\ \E o \in Outputs : output' = o
          /\ pc' = AfterForward(kwargs.pre_load)
          /\ Running
       \/ /\ Raise("Exception", "forward")
          /\ UNCHANGED output
    /\ UNCHANGED <<self, counters, args, kwargs, checkpoint, img, applied,
                   payload, loadedAtEntry, loadDone, everLoaded>>

\* lines 76-80: the standard answer of the warm-up path
ReturnPreload ==
    /\ pc = "return_preload"
    /\ payload' = PreloadPayload
    /\ outcome' = "returned"
    /\ pc' = "done"
    /\ UNCHANGED <<self, counters, args, kwargs, locals, trace, raisedAt,
                   loadedAtEntry, loadDone, everLoaded>>

\* lines 83, 143-151: return self.postprocess(output, **kwargs)
Postprocess ==
    /\ pc = "postprocess"
    /\ Did("postprocess")
    /\ LET sm == Softmax(output)
       IN  \E index \in MaxIndices(sm) :
             IF "classes" \notin attrs
             THEN /\ Raise("AttributeError", "postprocess")
                  /\ UNCHANGED payload
             ELSE IF index > Len(classes)
             THEN /\ Raise("IndexError", "postprocess")
                  /\ UNCHANGED payload
             ELSE /\ payload' = [kind |-> "result", label |-> classes[index],
                                 score |-> Format2f(sm.num[index], sm.den)]
                  /\ outcome' = "returned"
                  /\ pc' = "done"
                  /\ UNCHANGED raisedAt
    /\ UNCHANGED <<self, counters, args, kwargs, locals, loadedAtEntry,
                   loadDone, everLoaded>>

Next ==
    \/ \E pl \in BOOLEAN, lm \in CheckpointPaths, f \in FolderArgs, i \in ImageArgs :
          Call(pl, lm, f, i)
    \/ SetupModel
    \/ LoadCheckpoint
    \/ StoreTransform
    \/ StoreClasses
    \/ PreloadCheck
    \/ Preprocess
    \/ Forward
    \/ ReturnPreload
    \/ Postprocess

Spec == Init /\ [][Next]_vars

TypeOK ==
    /\ attrs \subseteq AllAttrs
    /\ model \in 0..MaxCalls
    /\ nCalls \in 0..MaxCalls
    /\ setupCalls \in 0..MaxCalls
    /\ ckptCalls \in 0..MaxCalls
    /\ output \in Outputs
    /\ loadedAtEntry \in BOOLEAN
    /\ loadDone \in BOOLEAN
    /\ everLoaded \in BOOLEAN

\* ---------------------------------------------------------------- properties
Done == pc = "done"
Returned == Done /\ outcome = "returned"
Ran(step) == \E k \in 1..Len(trace) : trace[k] = step
LoadSteps == <<"setup_model", "load_checkpoint", "store_transform", "store_classes">>
LoadPrefix == IF loadedAtEntry THEN <<>> ELSE LoadSteps
PastLoad == loadedAtEntry \/ loadDone
Abs(x) == IF x < 0 THEN 0 - x ELSE x

\* C1: lazy one-time load.  Nothing is loaded before the first call; the
\* first call enters the load block; and once some call has executed the
\* load block to its end, no step of any call invokes setup_model or
\* _load_checkpoint again, whatever arguments the call was given.
C1_LoadOnce ==
    [][ /\ everLoaded => (setupCalls' = setupCalls /\ ckptCalls' = ckptCalls)
        /\ nCalls' = 0 => (setupCalls' = 0 /\ ckptCalls' = 0)
        /\ (nCalls = 0 /\ nCalls' = 1) => pc' = "setup_model" ]_vars

\* A second call that names a checkpoint path with no file returns a result
\* without touching the loader, the only load being the first call's.
C1_Witness ==
    /\ Returned /\ nCalls = 2 /\ everLoaded /\ loadedAtEntry
    /\ args.load_model = "ckMissing"
    /\ setupCalls = 1 /\ ckptCalls = 1

\* C2: a call with pre_load false that returns a payload has executed
\* exactly the steps load block (iff the load guard held at entry),
\* preprocess, forward, postprocess, in that order and once each, and its
\* payload is the label and score postprocess derives from the output of
\* that call's forward pass.
C2_LinearPipeline ==
    (Returned /\ nCalls > 0 /\ ~args.pre_load) =>
        /\ trace = LoadPrefix \o <<"preprocess", "forward", "postprocess">>
        /\ loadedAtEntry = ({"model", "transform"} \subseteq attrs /\ ~loadDone)
        /\ payload.kind = "result"
        /\ \E i \in 1..NumOut :
              /\ i <= Len(classes)
              /\ output[i] = RowMax(output)
              /\ payload.label = classes[i]
              /\ payload.score = Format2f(Softmax(output).num[i], Softmax(output).den)

C2_Witness ==
    /\ Returned /\ ~args.pre_load /\ nCalls = 1
    /\ trace = LoadSteps \o <<"preprocess", "forward", "postprocess">>
    /\ payload.label = "bird"

\* C3: when postprocess returns, the payload is [label, score] with label
\* the class at a position holding the largest logit of the output row and
\* score the softmax value of that logit to two decimals (within half a
\* hundredth of exp(0) / sum_j exp(x_j - max)); and it does return whenever
\* the class list exists and covers every position of the largest logit.
C3_ArgmaxLabel ==
    (Done /\ Ran("postprocess")) =>
        LET mx == RowMax(output)
            top == {i \in 1..NumOut : output[i] = mx}
            den == SeqSum([j \in 1..NumOut |-> ExpNeg(mx - output[j])])
        IN  /\ outcome = "returned" =>
                /\ payload.kind = "result"
                /\ \E i \in top : i <= Len(classes) /\ payload.label = classes[i]
                /\ 2 * Abs(100 * ExpNeg(0) - payload.score * den) <= den
            /\ ("classes" \in attrs /\ \A i \in top : i <= Len(classes))
                  => outcome = "returned"

C3_Witness ==
    /\ Returned /\ Ran("postprocess")
    /\ output[1] = 0 - MaxLogit /\ output[2] = MaxLogit
    /\ \A i \in 3..NumOut : output[i] = 0
    /\ payload.label = "dog"
    /\ payload.score > 50 /\ payload.score < 100

\* C4: after a completed load block, self.transform is the checkpoint's
\* 'test_transform' entry if the file has one and the default otherwise
\* (and is the default only then), self.classes is the file's 'classes'
\* entry, and the absence of 'test_transform' never ends the load: a call
\* whose checkpoint was read and has 'classes' completes its load block.
C4_TransformFallback ==
    LET ck == TorchLoad(args.load_model)
    IN  /\ loadDone =>
            /\ ck.found
            /\ "transform" \in attrs /\ "classes" \in attrs
            /\ ck.hasT => transform = ck.T
            /\ ~ck.hasT => transform = DefaultTransform
            /\ transform = DefaultTransform => ~ck.hasT
            /\ classes = ck.C
        /\ (Done /\ Ran("load_checkpoint") /\ ck.found /\ ck.hasC) => loadDone

C4_Witness ==
    /\ Returned /\ loadDone
    /\ ~TorchLoad(args.load_model).hasT
    /\ transform = DefaultTransform
    /\ applied = DefaultTransform

C7_ExactlyOneInput ==
    LET hasF == kwargs.input_folder # None
        hasI == kwargs.input_image # None
    IN  /\ (Ran("preprocess") /\ (applied # "" \/ img # "")) => (hasF # hasI)
        /\ (Ran("preprocess") /\ hasF /\ hasI) =>
              /\ outcome = "AssertionError" /\ raisedAt = "preprocess"
              /\ applied = "" /\ ~Ran("forward")
        /\ (Ran("preprocess") /\ ~hasF /\ ~hasI) =>
              /\ ~args.pre_load
              /\ outcome = "UnboundLocalError" /\ raisedAt = "preprocess"
              /\ applied = "" /\ ~Ran("forward")
        /\ (Done /\ nCalls > 0 /\ (hasF = hasI) /\ (hasF \/ ~args.pre_load)) =>
              /\ outcome # "returned"
              /\ applied = "" /\ ~Ran("forward") /\ payload = NoPayload

C7_Witness ==
    /\ Done /\ ~args.pre_load
    /\ args.input_folder = "img_ok" /\ args.input_image = "b64_user"
    /\ Ran("preprocess")
    /\ outcome = "AssertionError" /\ raisedAt = "preprocess"

C9_Original ==
    /\ (pc \in {"idle", "done"} /\ {"model", "transform"} \subseteq attrs)
          => "classes" \in attrs
    /\ Ran("postprocess") => "classes" \in attrs

\* C10: frame condition.  Once some call has executed the load block to its
\* end, and in every call that skipped the load, no step changes self.model,
\* self.transform, self.classes or the set of attributes; the preprocess
\* and postprocess steps never change them in any state.
C10_Frame ==
    [][ (everLoaded \/ loadedAtEntry \/ pc \in {"preprocess", "postprocess"})
            => UNCHANGED self ]_vars

\* A loaded instance whose later call fails inside postprocess.
C10_Witness ==
    /\ Done /\ nCalls = 2 /\ everLoaded /\ loadedAtEntry
    /\ outcome = "IndexError" /\ raisedAt = "postprocess"
    /\ attrs = AllAttrs /\ model = 1

====
